---- MODULE Spec2Model ----
(***************************************************************************)
(* Model of pii_detection_tools/pii_detection.py: the three detectors,     *)
(* PIIDetectionManager and main().  Text is a sequence of one-character    *)
(* strings; a finding is the character sequence f"{label}: {text}".        *)
(***************************************************************************)
EXTENDS Integers, Sequences, FiniteSets

-----------------------------------------------------------------------------
(* Characters: the printable ASCII range in code-point order, plus the     *)
(* control whitespace characters the model uses.  The grave accent (96)   *)
(* cannot be written in a TLA+ string and is held by a placeholder.        *)

Ascii ==
  << " ", "!", "\"", "#", "$", "%", "&", "'", "(", ")", "*", "+", ",", "-", ".", "/",
     "0", "1", "2", "3", "4", "5", "6", "7", "8", "9", ":", ";", "<", "=", ">", "?",
     "@", "A", "B", "C", "D", "E", "F", "G", "H", "I", "J", "K", "L", "M", "N", "O",
     "P", "Q", "R", "S", "T", "U", "V", "W", "X", "Y", "Z", "[", "\\", "]", "^", "_",
     "GRAVE", "a", "b", "c", "d", "e", "f", "g", "h", "i", "j", "k", "l", "m", "n", "o",
     "p", "q", "r", "s", "t", "u", "v", "w", "x", "y", "z", "{", "|", "}", "~" >>

\* ord(c)
Ord(c) ==
  IF c = "\t" THEN 9
  ELSE IF c = "\n" THEN 10
  ELSE 31 + (CHOOSE i \in 1..Len(Ascii) : Ascii[i] = c)

\* chr(n) for a printable n
Chr(n) == Ascii[n - 31]

Digit == {"0", "1", "2", "3", "4", "5", "6", "7", "8", "9"}
UpperAZ == {Chr(n) : n \in 65..90}
LowerAZ == {Chr(n) : n \in 97..122}
\* str.isspace() / regex \s, restricted to the characters of the model
Whitespace == {" ", "\t", "\n"}
\* regex \w
WordChar == Digit \cup UpperAZ \cup LowerAZ \cup {"_"}

\* str.lower() and str.upper() on one character
LowerChar(c) == IF c \in UpperAZ THEN Chr(Ord(c) + 32) ELSE c
UpperChar(c) == IF c \in LowerAZ THEN Chr(Ord(c) - 32) ELSE c

\* str.lower()
Lower(s) == [i \in 1..Len(s) |-> LowerChar(s[i])]

\* str.capitalize(): first character upper-cased, the rest lower-cased
Capitalize(s) == [i \in 1..Len(s) |-> IF i = 1 THEN UpperChar(s[i]) ELSE LowerChar(s[i])]

\* s[a:b] for 0 <= a, with Python's clamping of the end
Slice(s, a, b) ==
  LET e == IF b > Len(s) THEN Len(s) ELSE b
  IN  IF a >= e THEN << >> ELSE SubSeq(s, a + 1, e)

\* Python's < on str: lexicographic by code point
StrLess(a, b) ==
  \E k \in 0..Len(a) :
     /\ k <= Len(b)
     /\ \A j \in 1..k : a[j] = b[j]
     /\ \/ k = Len(a) /\ k < Len(b)
        \/ k < Len(a) /\ k < Len(b) /\ Ord(a[k + 1]) < Ord(b[k + 1])

RECURSIVE SortedDescending(_)
\* sorted(S, reverse=True)
SortedDescending(S) ==
  IF S = {} THEN << >>
  ELSE LET m == CHOOSE x \in S : \A y \in S \ {x} : StrLess(y, x)
       IN  << m >> \o SortedDescending(S \ {m})

RECURSIVE Sorted(_)
\* sorted(S) for a set of str
Sorted(S) ==
  IF S = {} THEN << >>
  ELSE LET m == CHOOSE x \in S : \A y \in S \ {x} : StrLess(x, y)
       IN  << m >> \o Sorted(S \ {m})

\* f"{label}: {text}"
Finding(label, text) == label \o << ":", " " >> \o text

-----------------------------------------------------------------------------
(* The regular-expression engine (module re), as a backtracking matcher.   *)
(* A match state is [pos, g]: the position reached and the span of group 1 *)
(* (<< >> while the group has not taken part).  Matching a node from a     *)
(* list of states gives the list of states it can end in, in the order the *)
(* backtracking engine tries them.                                         *)

Cls(set)            == [t |-> "cls", c |-> set]
Lit(ch)             == [t |-> "cls", c |-> {ch}]
WB                  == [t |-> "wb"]
Cat(parts)          == [t |-> "cat", parts |-> parts]
\* r{lo,hi}; r{lo,} (also r+ and r*); r{lo,}? (also r*?)
Rep(r, lo, hi)      == [t |-> "rep", r |-> r, min |-> lo, bounded |-> TRUE, max |-> hi, greedy |-> TRUE]
RepFrom(r, lo)      == [t |-> "rep", r |-> r, min |-> lo, bounded |-> FALSE, max |-> lo, greedy |-> TRUE]
RepLazyFrom(r, lo)  == [t |-> "rep", r |-> r, min |-> lo, bounded |-> FALSE, max |-> lo, greedy |-> FALSE]
Opt(r)              == Rep(r, 0, 1)
Group(r)            == [t |-> "grp", r |-> r]

\* \b at position pos (0-based, between s[pos] and s[pos+1])
AtWordBoundary(s, pos) ==
  LET before == pos >= 1 /\ s[pos] \in WordChar
      after  == pos < Len(s) /\ s[pos + 1] \in WordChar
  IN  before # after

RECURSIVE MatchAll(_, _, _), MatchOne(_, _, _), MatchCat(_, _, _),
          MatchRep(_, _, _, _), MatchRepAll(_, _, _, _)

MatchAll(re, s, ms) ==
  IF ms = << >> THEN << >>
  ELSE MatchOne(re, s, Head(ms)) \o MatchAll(re, s, Tail(ms))

MatchOne(re, s, m) ==
  CASE re.t = "cls" ->
         IF m.pos < Len(s) /\ s[m.pos + 1] \in re.c
         THEN << [m EXCEPT !.pos = m.pos + 1] >> ELSE << >>
    [] re.t = "wb"  -> IF AtWordBoundary(s, m.pos) THEN << m >> ELSE << >>
    [] re.t = "cat" -> MatchCat(re.parts, s, << m >>)
    [] re.t = "rep" -> MatchRep(re, s, m, 0)
    [] re.t = "grp" ->
         LET ends == MatchOne(re.r, s, m)
         IN  [i \in 1..Len(ends) |-> [ends[i] EXCEPT !.g = << m.pos, ends[i].pos >>]]

MatchCat(parts, s, ms) ==
  IF parts = << >> THEN ms
  ELSE MatchCat(Tail(parts), s, MatchAll(Head(parts), s, ms))

MatchRep(re, s, m, n) ==
  LET stop == IF n >= re.min THEN << m >> ELSE << >>
      more == IF ~re.bounded \/ n < re.max
              THEN MatchRepAll(re, s, SelectSeq(MatchOne(re.r, s, m), LAMBDA e : e.pos > m.pos), n + 1)
              ELSE << >>
  IN  IF re.greedy THEN more \o stop ELSE stop \o more

MatchRepAll(re, s, ms, n) ==
  IF ms = << >> THEN << >>
  ELSE MatchRep(re, s, Head(ms), n) \o MatchRepAll(re, s, Tail(ms), n)

\* pattern.match(s, pos): the first state the engine ends in, or << >>
MatchAt(re, s, pos) ==
  LET ends == MatchOne(re, s, [pos |-> pos, g |-> << >>])
  IN  IF ends = << >> THEN << >> ELSE << Head(ends) >>

RECURSIVE Scan(_, _, _)
\* the non-overlapping matches of re in s from pos on, left to right:
\* each a record [start, end, g]
Scan(re, s, pos) ==
  IF pos > Len(s) THEN << >>
  ELSE LET hit == MatchAt(re, s, pos)
       IN  IF hit = << >> THEN Scan(re, s, pos + 1)
           ELSE LET e == hit[1].pos
                IN  << [start |-> pos, end |-> e, g |-> hit[1].g] >>
                    \o Scan(re, s, IF e > pos THEN e ELSE pos + 1)

\* re.findall(pattern, s): with no group the whole match, with one group
\* the text of that group ('' when the group took no part in the match)
FindAll(re, groups, s) ==
  LET ms == Scan(re, s, 0)
  IN  [i \in 1..Len(ms) |->
         IF groups = 0 THEN Slice(s, ms[i].start, ms[i].end)
         ELSE IF ms[i].g = << >> THEN << >>
         ELSE Slice(s, ms[i].g[1], ms[i].g[2])]

-----------------------------------------------------------------------------
(* RegexPIIDetector                                                        *)

EmailLabel      == << "E", "m", "a", "i", "l" >>
PhoneLabel      == << "P", "h", "o", "n", "e" >>
SSNLabel        == << "S", "S", "N" >>
CreditCardLabel == << "C", "r", "e", "d", "i", "t", " ", "C", "a", "r", "d" >>
PassportLabel   == << "P", "a", "s", "s", "p", "o", "r", "t" >>
CanadianSINLabel == << "C", "a", "n", "a", "d", "i", "a", "n", " ", "S", "I", "N" >>

AlNum == UpperAZ \cup LowerAZ \cup Digit
\* [-.\s]
Sep == {"-", "."} \cup Whitespace
D(n) == Rep(Cls(Digit), n, n)

\* \b[A-Za-z0-9._%+-]+@[A-Za-z0-9.-]+\.[A-Z|a-z]{2,}\b
EmailPattern ==
  Cat(<< WB, RepFrom(Cls(AlNum \cup {".", "_", "%", "+", "-"}), 1), Lit("@"),
         RepFrom(Cls(AlNum \cup {".", "-"}), 1), Lit("."),
         RepFrom(Cls(UpperAZ \cup {"|"} \cup LowerAZ), 2), WB >>)

\* \b(\+\d{1,3}[-.\s]?)?\(?\d{3}\)?[-.\s]?\d{3}[-.\s]?\d{4}\b
PhonePattern ==
  Cat(<< WB, Opt(Group(Cat(<< Lit("+"), Rep(Cls(Digit), 1, 3), Opt(Cls(Sep)) >>))),
         Opt(Lit("(")), D(3), Opt(Lit(")")), Opt(Cls(Sep)), D(3), Opt(Cls(Sep)), D(4), WB >>)

\* \b\d{3}-\d{2}-\d{4}\b
SSNPattern == Cat(<< WB, D(3), Lit("-"), D(2), Lit("-"), D(4), WB >>)

\* \b(?:\d[ -]*?){13,16}\b
CreditCardPattern ==
  Cat(<< WB, Rep(Cat(<< Cls(Digit), RepLazyFrom(Cls({" ", "-"}), 0) >>), 13, 16), WB >>)

\* \b[A-Z0-9]{6,9}\b
PassportPattern == Cat(<< WB, Rep(Cls(UpperAZ \cup Digit), 6, 9), WB >>)

\* \b\d{3}-\d{3}-\d{3}\b
CanadianSINPattern == Cat(<< WB, D(3), Lit("-"), D(3), Lit("-"), D(3), WB >>)

\* self.patterns, in insertion order; groups is the number of capturing
\* groups of the pattern, which decides what re.findall returns
Patterns ==
  << [pii_type |-> EmailLabel,       pattern |-> EmailPattern,       groups |-> 0],
     [pii_type |-> PhoneLabel,       pattern |-> PhonePattern,       groups |-> 1],
     [pii_type |-> SSNLabel,         pattern |-> SSNPattern,         groups |-> 0],
     [pii_type |-> CreditCardLabel,  pattern |-> CreditCardPattern,  groups |-> 0],
     [pii_type |-> PassportLabel,    pattern |-> PassportPattern,    groups |-> 0],
     [pii_type |-> CanadianSINLabel, pattern |-> CanadianSINPattern, groups |-> 0] >>

\* RegexPIIDetector.detect(text)
RegexDetect(text) ==
  UNION { LET matches == FindAll(Patterns[k].pattern, Patterns[k].groups, text)
          IN  { Finding(Patterns[k].pii_type, matches[i]) : i \in 1..Len(matches) }
        : k \in 1..Len(Patterns) }

-----------------------------------------------------------------------------
(* SpacyPIIDetector and PresidioPIIDetector: the engines are external, so  *)
(* what a call gives (the entities found, or an exception) is an input.    *)

PERSON == << "P", "E", "R", "S", "O", "N" >>
GPE    == << "G", "P", "E" >>
ORG    == << "O", "R", "G" >>
DATE   == << "D", "A", "T", "E" >>
US_SSN == << "U", "S", "_", "S", "S", "N" >>

\* entities self.nlp(text) may report (doc.ents), each with label_ and text
SpacyEnts ==
  { [label_ |-> PERSON, text |-> << "A", "l" >>],
    [label_ |-> ORG,    text |-> << "A", "C" >>],
    [label_ |-> DATE,   text |-> << "M", "a", "y" >>] }

\* SpacyPIIDetector.detect, given doc.ents
SpacyDetect(ents) ==
  { Finding(ent.label_, ent.text) : ent \in { e \in ents : e.label_ \in {PERSON, GPE, ORG} } }

\* results self.analyzer.analyze(...) may report, each with entity_type,
\* start and end
PresidioHits ==
  { [entity_type |-> PERSON, start |-> 0, end |-> 2],
    [entity_type |-> US_SSN, start |-> 1, end |-> 3] }

\* PresidioPIIDetector.detect, given the analyzer's results
PresidioDetect(text, hits) ==
  { Finding(r.entity_type, Slice(text, r.start, r.end)) : r \in hits }

-----------------------------------------------------------------------------
(* PIIDetectionManager                                                     *)

regex    == << "r", "e", "g", "e", "x" >>
spacy    == << "s", "p", "a", "c", "y" >>
presidio == << "p", "r", "e", "s", "i", "d", "i", "o" >>

\* list(self.detectors.keys())
available_methods == << regex, spacy, presidio >>

\* the outcomes of self.detectors[method].detect(text): the set returned, or
\* an exception (raised)
DetectOutcomes(method, text) ==
  IF method = regex
  THEN { [raised |-> FALSE, findings |-> RegexDetect(text)] }
  ELSE { [raised |-> TRUE, findings |-> {}] } \cup
       IF method = spacy
       THEN { [raised |-> FALSE, findings |-> SpacyDetect(ents)] : ents \in SUBSET SpacyEnts }
       ELSE { [raised |-> FALSE, findings |-> PresidioDetect(text, hits)] : hits \in SUBSET PresidioHits }

\* a dict kept as the sequence of its items in insertion order
DictHas(d, key) == \E i \in 1..Len(d) : d[i].key = key
DictGet(d, key) == d[CHOOSE i \in 1..Len(d) : d[i].key = key].val
\* a list of pairs in place of the dict: every assignment adds an item
DictSetAppend(d, key, val) == Append(d, [key |-> key, val |-> val])

\* d[key] = val: a key already there keeps its place
DictSet(d, key, val) ==
  IF DictHas(d, key)
  THEN [i \in 1..Len(d) |-> IF d[i].key = key THEN [key |-> key, val |-> val] ELSE d[i]]
  ELSE Append(d, [key |-> key, val |-> val])

\* str.strip()
Strip(s) ==
  LET idx == { i \in 1..Len(s) : s[i] \notin Whitespace }
  IN  IF idx = {} THEN << >>
      ELSE SubSeq(s, CHOOSE i \in idx : \A j \in idx : i <= j,
                     CHOOSE i \in idx : \A j \in idx : i >= j)

RECURSIVE Split(_)
\* str.split(): the maximal runs of non-whitespace characters
Split(s) ==
  IF s = << >> THEN << >>
  ELSE IF Head(s) \in Whitespace THEN Split(Tail(s))
  ELSE LET stops == { i \in 1..Len(s) : s[i] \in Whitespace }
           n == IF stops = {} THEN Len(s)
                ELSE (CHOOSE i \in stops : \A j \in stops : i <= j) - 1
       IN  << SubSeq(s, 1, n) >> \o Split(SubSeq(s, n + 1, Len(s)))

RECURSIVE DigitsValue(_)
DigitsValue(ds) ==
  IF ds = << >> THEN 0
  ELSE 10 * DigitsValue(SubSeq(ds, 1, Len(ds) - 1)) + (Ord(ds[Len(ds)]) - 48)

\* int(x) for a whitespace-free token: an optional sign, then digits with
\* single underscores allowed between them; anything else is a ValueError
IntParse(x) ==
  LET signed == x # << >> /\ x[1] \in {"+", "-"}
      body == IF signed THEN Tail(x) ELSE x
      ok == /\ body # << >>
            /\ \A i \in 1..Len(body) : body[i] \in Digit \cup {"_"}
            /\ body[1] \in Digit /\ body[Len(body)] \in Digit
            /\ \A i \in 1..(Len(body) - 1) : ~(body[i] = "_" /\ body[i + 1] = "_")
      mag == DigitsValue(SelectSeq(body, LAMBDA c : c \in Digit))
  IN  IF ~ok THEN [ok |-> FALSE, val |-> 0]
      ELSE [ok |-> TRUE, val |-> IF signed /\ x[1] = "-" THEN 0 - mag ELSE mag]

\* .strip() alone, the case of the line kept
NormalizeNoLower(raw) == Strip(raw)

\* select_methods, line 84: .strip().lower() on the line read
Normalize(raw) == Lower(Strip(raw))

\* the literal "all"
AllWord == << "a", "l", "l" >>

\* select_methods, one pass of the loop body on the line input() returned:
\* "return" with the methods selected, or the notice to print before the
\* next prompt ("ValueError": a token int() rejects; "invalid": an index
\* out of range)
SelectionOf(raw) ==
  LET user_input == Normalize(raw)
      toks == Split(user_input)
      parsed == [i \in 1..Len(toks) |-> IntParse(toks[i])]
      selected == [i \in 1..Len(toks) |-> parsed[i].val - 1]
  IN  IF user_input = AllWord
      THEN [kind |-> "return", methods |-> available_methods]
      ELSE IF \E i \in 1..Len(toks) : ~parsed[i].ok
      THEN [kind |-> "ValueError", methods |-> << >>]
      ELSE IF \A i \in 1..Len(toks) : 0 <= selected[i] /\ selected[i] < Len(available_methods)
      THEN [kind |-> "return",
            methods |-> [i \in 1..Len(toks) |-> available_methods[selected[i] + 1]]]
      ELSE [kind |-> "invalid", methods |-> << >>]

\* a print() call: the format string and the value formatted into it
Msg(msg, arg) == [msg |-> msg, arg |-> arg]

\* read_corpus with the FileNotFoundError branch returning the notice
\* instead of the empty string
ReadCorpusResultNotice(f) ==
  CASE f.kind = "ok" -> [text |-> f.content, printed |-> << >>]
    [] f.kind = "missing" ->
         [text |-> << "E", "r", "r", "o", "r" >>,
          printed |-> << Msg("Error: File '{file_path}' not found.", << >>) >>]
    [] OTHER ->
         [text |-> << >>, printed |-> << Msg("Error reading file: {e}", << >>) >>]

\* read_corpus(file_path) on file f: the text returned and what is printed
ReadCorpusResult(f) ==
  CASE f.kind = "ok" -> [text |-> f.content, printed |-> << >>]
    [] f.kind = "missing" ->
         [text |-> << >>, printed |-> << Msg("Error: File '{file_path}' not found.", << >>) >>]
    [] OTHER ->
         [text |-> << >>, printed |-> << Msg("Error reading file: {e}", << >>) >>]

\* "if corpus is None", which no text returned by read_corpus satisfies
CorpusIsNone(text) == FALSE

\* main: "if not corpus"
NotCorpus(text) == text = << >>

\* "if selected_methods is None", which no list satisfies
SelectedIsNone(methods) == FALSE

\* main: "if not selected_methods"
NotSelected(methods) == methods = << >>

\* the except branch without "results[method] = set()"
DetectStoreNoReset(res, method, o) ==
  IF o.raised THEN res ELSE DictSet(res, method, o.findings)

\* detect_pii, the try/except around one detect call: the results after
\* the call ended as outcome o
DetectStore(res, method, o) ==
  IF o.raised THEN DictSet(res, method, {}) ELSE DictSet(res, method, o.findings)

RECURSIVE DisplaySections(_)
\* display_results, the loop over results.items()
DisplaySections(res) ==
  IF res = << >> THEN << >>
  ELSE LET method == Head(res).key
           findings == Head(res).val
           ordered == Sorted(findings)
       IN  << Msg("{method.capitalize()} Detector:", Capitalize(method)) >>
           \o (IF findings # {}
               THEN [i \in 1..Len(ordered) |-> Msg("  - {finding}", ordered[i])]
               ELSE << Msg("  No PII detected.", << >>) >>)
           \o DisplaySections(Tail(res))

\* display_results(results): everything it prints
DisplayLines(res) ==
  << Msg("=== PII Detection Results ===", << >>) >>
  \o DisplaySections(res)
  \o << Msg("============================", << >>) >>

\* select_methods, the menu printed before the loop
MenuLines ==
  << Msg("Select PII Detection Methods (like checkboxes):", << >>) >>
  \o [i \in 1..Len(available_methods) |-> Msg("{i}. {method.capitalize()}", Capitalize(available_methods[i]))]
  \o << Msg("Enter the numbers of the methods to use (e.g., '1 2 3' for all, or '1 3'), or 'all':", << >>) >>

-----------------------------------------------------------------------------
(* Bounds and inputs                                                       *)

\* longest line typed at the prompt
MaxLineLen == 3
\* most lines select_methods rejects in one run
MaxInvalid == 1
\* most fragments a text of the detector check is made of
MaxFrags == 2

LineChars == {"0", "1", "2", "3", "4", "-", " ", "a", "l", "A", "L"}
Lines == UNION { [1..n -> LineChars] : n \in 0..MaxLineLen }
ValidLines == { l \in Lines : SelectionOf(l).kind = "return" }

PhoneText == << "5", "5", "5", "-", "1", "2", "3", "-", "4", "5", "6", "7" >>
\* input_corpus.txt as main may find it
Files ==
  { [kind |-> "missing", content |-> << >>],
    [kind |-> "unreadable", content |-> << >>],
    [kind |-> "ok", content |-> << >>],
    [kind |-> "ok", content |-> << "h", "i" >>],
    [kind |-> "ok", content |-> << "a", "@", "b", ".", "c", "o", " " >> \o PhoneText] }

Fragments ==
  { << "a", "@", "b", ".", "c", "o" >>,
    PhoneText,
    << "x", "+", "1", " " >>,
    << "1", "2", "3", "-", "4", "5", "-", "6", "7", "8", "9" >>,
    << "1", "2", "3", "-", "4", "5", "6", "-", "7", "8", "9" >>,
    << "A", "B", "1", "2", "3", "4" >>,
    << "4", "1", "1", "1", " ", "1", "1", "1", "1", "1", "1", "-", "1", "1", "1", "1" >>,
    << " " >>,
    << "h", "i" >> }

RECURSIVE TextsOf(_)
\* the texts made of at most n fragments
TextsOf(n) ==
  IF n = 0 THEN { << >> }
  ELSE TextsOf(n - 1) \cup { t \o f : t \in TextsOf(n - 1), f \in Fragments }

Corpora == TextsOf(MaxFrags)

-----------------------------------------------------------------------------
(* main()                                                                  *)

VARIABLES
  fs,                \* input_corpus.txt: [kind, content]
  pc,                \* where main is
  corpus,            \* main: corpus
  line,              \* select_methods: what input() returned
  selected_methods,  \* main: selected_methods / detect_pii: methods
  k,                 \* detect_pii: position of the for loop in methods
  results,           \* detect_pii: results
  out,               \* everything printed so far
  calls,             \* every detect call made so far, with how it ended
  prompts,           \* number of input() calls made
  invalid,           \* number of lines select_methods has rejected
  called,            \* the manager's methods called so far
  exc                \* the exception that left main, "" if none

vars == << fs, pc, corpus, line, selected_methods, k, results, out, calls,
           prompts, invalid, called, exc >>

Fresh ==
  /\ corpus = << >> /\ line = << >> /\ selected_methods = << >> /\ k = 1
  /\ results = << >> /\ out = << >> /\ calls = << >> /\ prompts = 0
  /\ invalid = 0 /\ called = {} /\ exc = ""

Init ==
  /\ fs \in Files
  /\ pc = "main"
  /\ Fresh

\* main, lines 134-138: PIIDetectionManager(); a detector whose engine
\* cannot be built raises, which main catches
Construct ==
  /\ pc = "main"
  /\ \E failing \in {"none", "spacy", "presidio"} :
       IF failing = "none"
       THEN pc' = "read_corpus" /\ out' = out
       ELSE /\ out' = Append(out, Msg("Error initializing detectors: {e}", << >>))
            /\ pc' = "done"
  /\ UNCHANGED << fs, corpus, line, selected_methods, k, results, calls,
                  prompts, invalid, called, exc >>

\* main, lines 144-147
ReadCorpus ==
  /\ pc = "read_corpus"
  /\ LET r == ReadCorpusResult(fs)
     IN  /\ corpus' = r.text
         /\ called' = called \cup {"read_corpus"}
         /\ IF NotCorpus(r.text)
            THEN /\ out' = out \o r.printed
                           \o << Msg("Exiting due to corpus read error.", << >>) >>
                 /\ pc' = "done"
            ELSE /\ out' = out \o r.printed
                 /\ pc' = "select_methods"
  /\ UNCHANGED << fs, line, selected_methods, k, results, calls, prompts,
                  invalid, exc >>

\* select_methods, lines 77-80
SelectMethodsMenu ==
  /\ pc = "select_methods"
  /\ called' = called \cup {"select_methods"}
  /\ out' = out \o MenuLines
  /\ pc' = "input"
  /\ UNCHANGED << fs, corpus, line, selected_methods, k, results, calls,
                  prompts, invalid, exc >>

\* select_methods, line 84: input("> ") returns a line
InputLine ==
  /\ pc = "input"
  /\ \E l \in (IF invalid < MaxInvalid THEN Lines ELSE ValidLines) : line' = l
  /\ prompts' = prompts + 1
  /\ pc' = "parse"
  /\ UNCHANGED << fs, corpus, selected_methods, k, results, out, calls,
                  invalid, called, exc >>

\* select_methods, line 84: input("> ") at end of input raises EOFError,
\* which neither select_methods nor main catches
InputEOF ==
  /\ pc = "input"
  /\ prompts' = prompts + 1
  /\ exc' = "EOFError"
  /\ pc' = "raised"
  /\ UNCHANGED << fs, corpus, line, selected_methods, k, results, out,
                  calls, invalid, called >>

\* select_methods, lines 84-93, on the line read
ParseSelection ==
  /\ pc = "parse"
  /\ LET sel == SelectionOf(line)
     IN  CASE sel.kind = "return" ->
                /\ selected_methods' = sel.methods
                /\ pc' = "selected"
                /\ UNCHANGED << line, out, invalid >>
           [] sel.kind = "invalid" ->
                /\ out' = Append(out, Msg("Invalid selection. Please enter valid numbers.", << >>))
                /\ invalid' = invalid + 1
                /\ line' = << >>
                /\ pc' = "input"
                /\ UNCHANGED selected_methods
           [] OTHER ->
                /\ out' = Append(out, Msg("Invalid input. Please enter numbers separated by spaces or 'all'.", << >>))
                /\ invalid' = invalid + 1
                /\ line' = << >>
                /\ pc' = "input"
                /\ UNCHANGED selected_methods
  /\ UNCHANGED << fs, corpus, k, results, calls, prompts, called, exc >>

\* main, lines 150-156: select_methods has returned
MainAfterSelect ==
  /\ pc = "selected"
  /\ line' = << >>
  /\ IF NotSelected(selected_methods)
     THEN /\ out' = Append(out, Msg("No methods selected. Exiting.", << >>))
          /\ pc' = "done"
          /\ UNCHANGED << called, results, k >>
     ELSE /\ called' = called \cup {"detect_pii"}
          /\ results' = << >>
          /\ k' = 1
          /\ pc' = "detect_pii"
          /\ out' = out
  /\ UNCHANGED << fs, corpus, selected_methods, calls, prompts, invalid, exc >>

\* detect_pii, lines 110-117: one pass of the for loop
DetectStep ==
  /\ pc = "detect_pii"
  /\ k <= Len(selected_methods)
  /\ LET method == selected_methods[k]
     IN  IF \E i \in 1..Len(available_methods) : available_methods[i] = method
         THEN \E o \in DetectOutcomes(method, corpus) :
                /\ calls' = Append(calls, [method |-> method, raised |-> o.raised,
                                           findings |-> o.findings])
                /\ results' = DetectStore(results, method, o)
                /\ out' = IF o.raised
                          THEN Append(out, Msg("Error with {method} detector: {e}", method))
                          ELSE out
         ELSE UNCHANGED << calls, results, out >>
  /\ k' = k + 1
  /\ UNCHANGED << fs, pc, corpus, line, selected_methods, prompts, invalid,
                  called, exc >>

\* detect_pii, line 118, and main, line 159: display_results(results)
DisplayResults ==
  /\ pc = "detect_pii"
  /\ k > Len(selected_methods)
  /\ called' = called \cup {"display_results"}
  /\ out' = out \o DisplayLines(results)
  /\ pc' = "done"
  /\ UNCHANGED << fs, corpus, line, selected_methods, k, results, calls,
                  prompts, invalid, exc >>

Next ==
  \/ Construct
  \/ ReadCorpus
  \/ SelectMethodsMenu
  \/ InputLine
  \/ InputEOF
  \/ ParseSelection
  \/ MainAfterSelect
  \/ DetectStep
  \/ DisplayResults

Spec == Init /\ [][Next]_vars

-----------------------------------------------------------------------------
(* RegexPIIDetector.detect on its own: one call on a text                  *)

InitRegex ==
  /\ fs \in { [kind |-> "ok", content |-> t] : t \in Corpora }
  /\ pc = "regex_detect"
  /\ Fresh

RegexDetectCall ==
  /\ pc = "regex_detect"
  /\ calls' = Append(calls, [method |-> regex, raised |-> FALSE,
                             findings |-> RegexDetect(fs.content)])
  /\ pc' = "regex_returned"
  /\ UNCHANGED << fs, corpus, line, selected_methods, k, results, out,
                  prompts, invalid, called, exc >>

SpecRegex == InitRegex /\ [][RegexDetectCall]_vars

-----------------------------------------------------------------------------
(* Properties                                                              *)

Last(q) == q[Len(q)]
HasMsg(m) == \E i \in 1..Len(out) : out[i].msg = m
RangeOf(q) == { q[i] : i \in 1..Len(q) }

\* detect_pii has run its loop to the end
DetectReturned ==
  \/ pc = "detect_pii" /\ k > Len(selected_methods)
  \/ pc = "done" /\ "display_results" \in called

\* the last detect call made on method m
LastCall(m) ==
  calls[CHOOSE i \in 1..Len(calls) :
          /\ calls[i].method = m
          /\ \A j \in (i + 1)..Len(calls) : calls[j].method # m]

\* what the mapping must hold for a call that ended as c
EntryFor(c) == IF c.raised THEN {} ELSE c.findings

\* every method is invoked in list order, whatever the earlier calls did
InvokedInOrder ==
  /\ Len(calls) = Len(selected_methods)
  /\ \A i \in 1..Len(calls) : calls[i].method = selected_methods[i]

\* no exception has left detect_pii
NothingEscaped == exc = "" /\ pc # "raised"

\* every call that raised was reported on the console
RaisesReported ==
  Cardinality({ i \in 1..Len(calls) : calls[i].raised })
    = Cardinality({ i \in 1..Len(out) : out[i].msg = "Error with {method} detector: {e}" })

\* C1 as stated: when a detect call raises, the returned mapping holds the
\* empty set for that method, the exception stays inside detect_pii, every
\* later method is still invoked, and every other entry is what that
\* detector returned.
C1_Original ==
  DetectReturned =>
    /\ NothingEscaped
    /\ InvokedInOrder
    /\ \A i \in 1..Len(calls) :
         calls[i].raised =>
           /\ DictHas(results, calls[i].method)
           /\ DictGet(results, calls[i].method) = {}
           /\ \A j \in 1..Len(calls) :
                calls[j].method # calls[i].method =>
                  /\ DictHas(results, calls[j].method)
                  /\ DictGet(results, calls[j].method) = EntryFor(calls[j])

\* C1 as amended: a raising detect call is caught and reported, every later
\* method of the list is still invoked, and when detect_pii returns the
\* entry of each selected method is decided by that method's last call in
\* the list: the empty set if that call raised, what it returned otherwise.
C1_FailureIsolated ==
  /\ "detect_pii" \in called => NothingEscaped /\ RaisesReported
  /\ DetectReturned =>
       /\ InvokedInOrder
       /\ \A m \in RangeOf(selected_methods) :
            /\ DictHas(results, m)
            /\ DictGet(results, m) = EntryFor(LastCall(m))

\* a call raised, and a later call on another method returned findings
C1_Witness ==
  /\ pc = "done" /\ "display_results" \in called
  /\ \E i \in 1..Len(calls) : \E j \in (i + 1)..Len(calls) :
       /\ calls[i].raised /\ ~calls[j].raised /\ calls[j].findings # {}
       /\ calls[i].method # calls[j].method
       /\ DictGet(results, calls[i].method) = {}

\* C2: for a file that does not exist read_corpus prints the notice and
\* returns the empty string, and main halts: no call of select_methods, no
\* prompt, no detect call, no call of display_results.
C2_MissingFileHalts ==
  (fs.kind = "missing" /\ "read_corpus" \in called) =>
    /\ corpus = << >>
    /\ HasMsg("Error: File '{file_path}' not found.")
    /\ pc = "done" /\ exc = ""
    /\ called = {"read_corpus"}
    /\ prompts = 0
    /\ calls = << >>
    /\ ~HasMsg("=== PII Detection Results ===")
    /\ ~HasMsg("Select PII Detection Methods (like checkboxes):")

C2_Witness == fs.kind = "missing" /\ "read_corpus" \in called /\ pc = "done"

\* a token that is an index within 1..N
IsIndex(tok) ==
  IntParse(tok).ok /\ IntParse(tok).val >= 1 /\ IntParse(tok).val <= Len(available_methods)

\* the line is "all" in any case, with whitespace around it
IsAllLine(l) ==
  \E a \in 0..Len(l) : \E b \in (a + 3)..Len(l) :
     /\ b = a + 3
     /\ \A i \in 1..a : l[i] \in Whitespace
     /\ \A i \in (b + 1)..Len(l) : l[i] \in Whitespace
     /\ l[a + 1] \in {"a", "A"} /\ l[a + 2] \in {"l", "L"} /\ l[a + 3] \in {"l", "L"}

\* the line is "all" or a list of indices all within 1..N
IsValidLine(l) ==
  \/ IsAllLine(l)
  \/ \A i \in 1..Len(Split(l)) : IsIndex(Split(l)[i])

\* C3 as stated: a line with a non-numeric token or an index outside 1..N
\* gives a notice and another prompt; select_methods returns only at a line
\* that is "all" or a list of indices within 1..N, and at the first such
\* line; until then it keeps prompting, so the loop is left in no other way.
C3_Original ==
  [][ /\ (pc = "parse" /\ ~IsValidLine(line)) =>
           /\ pc' = "input"
           /\ Len(out') = Len(out) + 1
           /\ Last(out').msg \in
                { "Invalid selection. Please enter valid numbers.",
                  "Invalid input. Please enter numbers separated by spaces or 'all'." }
      /\ (pc = "parse" /\ IsValidLine(line)) => pc' = "selected"
      /\ pc = "input" => pc' \in {"input", "parse"}
    ]_vars

\* C4 as stated: no exception ever escapes main.
C4_Original == exc = "" /\ pc # "raised"

\* the findings C5 states for a text: for every pattern, one per match, of
\* the whole span matched
WholeMatchFindings(text) ==
  UNION { LET ms == Scan(Patterns[n].pattern, text, 0)
          IN  { Finding(Patterns[n].pii_type, Slice(text, ms[i].start, ms[i].end))
                : i \in 1..Len(ms) }
        : n \in 1..Len(Patterns) }

\* C5 as stated: RegexPIIDetector.detect returns, for every pattern and
\* every non-overlapping match of it, the finding "<pattern name>: <the
\* whole text the pattern matched>", and nothing else.
C5_Original ==
  pc = "regex_returned" => Last(calls).findings = WholeMatchFindings(fs.content)

\* the report: what display_results printed between its first and last line
Report ==
  LET first == CHOOSE i \in 1..Len(out) : out[i].msg = "=== PII Detection Results ==="
  IN  SubSeq(out, first + 1, Len(out) - 1)

\* the positions of the section headings in the report
Headings == { i \in 1..Len(Report) : Report[i].msg = "{method.capitalize()} Detector:" }

\* the lines of the section whose heading is at position h
SectionAt(h) ==
  LET later == { i \in Headings : i > h }
      stop == IF later = {} THEN Len(Report)
              ELSE (CHOOSE i \in later : \A j \in later : i <= j) - 1
  IN  SubSeq(Report, h + 1, stop)

\* the position of the n-th heading
HeadingNo(n) == CHOOSE h \in Headings : Cardinality({ i \in Headings : i <= h }) = n

CapitalizedName(m) ==
  CASE m = regex    -> << "R", "e", "g", "e", "x" >>
    [] m = spacy    -> << "S", "p", "a", "c", "y" >>
    [] m = presidio -> << "P", "r", "e", "s", "i", "d", "i", "o" >>

\* one section per entry of the mapping, in its order: the capitalized
\* name, then the findings in ascending order, or the notice exactly when
\* there are none
SectionsMatchResults ==
  /\ Last(out).msg = "============================"
  /\ Cardinality(Headings) = Len(results)
  /\ Report # << >> => 1 \in Headings
  /\ \A n \in 1..Len(results) :
       LET sec == SectionAt(HeadingNo(n))
           findings == results[n].val
       IN  /\ Report[HeadingNo(n)].arg = CapitalizedName(results[n].key)
           /\ IF findings = {}
              THEN sec = << Msg("  No PII detected.", << >>) >>
              ELSE /\ Len(sec) = Cardinality(findings)
                   /\ \A i \in 1..Len(sec) : sec[i].msg = "  - {finding}"
                   /\ { sec[i].arg : i \in 1..Len(sec) } = findings
                   /\ \A i \in 1..(Len(sec) - 1) : StrLess(sec[i].arg, sec[i + 1].arg)

\* C6 as stated: the sections are as above and there are as many of them
\* as detector invocations were made in the run.
C6_Original ==
  "display_results" \in called =>
    /\ SectionsMatchResults
    /\ Cardinality(Headings) = Len(calls)

\* C6 as amended: display_results prints one section per strategy invoked
\* (a strategy invoked more than once has one section), headed by its
\* capitalized name and followed by its findings in ascending order, or by
\* the "No PII detected" notice exactly when its finding set is empty.
C6_ReportSections ==
  "display_results" \in called =>
    /\ SectionsMatchResults
    /\ Cardinality(Headings) = Cardinality({ calls[i].method : i \in 1..Len(calls) })
    /\ \A i \in 1..Len(calls) : DictHas(results, calls[i].method)

\* a report with a section of several findings, a section empty because the
\* detector raised, and a strategy invoked twice
C6_Witness ==
  /\ "display_results" \in called
  /\ \E n \in 1..Len(results) : Cardinality(results[n].val) >= 2
  /\ \E i \in 1..Len(calls) : calls[i].raised /\ DictGet(results, calls[i].method) = {}

IsBlankLine(l) == \A i \in 1..Len(l) : l[i] \in Whitespace

\* C8: an empty or whitespace-only line is accepted without a notice or a
\* new prompt and gives the empty list; main then prints "No methods
\* selected. Exiting." and returns: no detect call, no display_results.
C8_BlankLineSelectsNothing ==
  /\ [][ (pc = "parse" /\ IsBlankLine(line)) =>
           /\ pc' = "selected" /\ selected_methods' = << >>
           /\ out' = out /\ prompts' = prompts
       ]_vars
  /\ [][ (pc = "selected" /\ selected_methods = << >>) =>
           /\ pc' = "done"
           /\ out' = Append(out, Msg("No methods selected. Exiting.", << >>))
           /\ calls' = << >>
           /\ called' = called
       ]_vars
  /\ [](HasMsg("No methods selected. Exiting.") =>
          /\ pc = "done" /\ calls = << >>
          /\ "detect_pii" \notin called /\ "display_results" \notin called)

C8_Witness ==
  /\ pc = "done" /\ prompts = 1
  /\ Last(out).msg = "No methods selected. Exiting."

\* the index a one-digit token names
IndexOf(ch) == CHOOSE n \in 1..3 : Chr(48 + n) = ch

\* C9: a line of two indices, equal or not, gives the two names in the
\* order entered; detect_pii invokes the detectors once per element of the
\* list in list order, and the mapping holds one entry per distinct name,
\* that of the name's last invocation.
C9_RepeatedIndex ==
  /\ [][ (pc = "parse" /\ Len(line) = 3 /\ line[2] = " "
            /\ line[1] \in {"1", "2", "3"} /\ line[3] \in {"1", "2", "3"}) =>
           /\ pc' = "selected"
           /\ selected_methods' = << available_methods[IndexOf(line[1])],
                                     available_methods[IndexOf(line[3])] >>
       ]_vars
  /\ [](DetectReturned =>
          /\ InvokedInOrder
          /\ Len(results) = Cardinality(RangeOf(selected_methods))
          /\ { results[i].key : i \in 1..Len(results) } = RangeOf(selected_methods)
          /\ \A i \in 1..Len(results) : results[i].val = EntryFor(LastCall(results[i].key)))

\* the same strategy selected twice, its two calls ending differently
C9_Witness ==
  /\ pc = "done" /\ "display_results" \in called
  /\ Len(selected_methods) = 2 /\ selected_methods[1] = selected_methods[2]
  /\ Len(calls) = 2 /\ calls[1].findings # calls[2].findings
  /\ Len(results) = 1

\* C10: main reaches the selection prompt exactly when the text read_corpus
\* returned is not empty; a file read successfully with empty content ends
\* the run with "Exiting due to corpus read error." like a missing or
\* unreadable one: no prompt, no detect call, no report.
C10_EmptyCorpusHalts ==
  /\ (pc = "select_methods" \/ "select_methods" \in called)
       <=> ("read_corpus" \in called /\ corpus # << >>)
  /\ prompts > 0 => "select_methods" \in called
  /\ ("read_corpus" \in called /\ fs.kind = "ok") => corpus = fs.content
  /\ ("read_corpus" \in called /\ corpus = << >>) =>
       /\ pc = "done" /\ exc = ""
       /\ Last(out).msg = "Exiting due to corpus read error."
       /\ prompts = 0 /\ calls = << >>
       /\ called = {"read_corpus"}
       /\ ~HasMsg("=== PII Detection Results ===")

C10_Witness ==
  /\ fs.kind = "ok" /\ fs.content = << >>
  /\ "read_corpus" \in called /\ pc = "done"
  /\ out = << Msg("Exiting due to corpus read error.", << >>) >>

====
